---- MODULE Spec2Model ----
(***************************************************************************)
(* The test subcommand of onlinejudge_command: test.run drives every case  *)
(* through test_single_case (utils.exec_command, run_checking_output,      *)
(* display_result), sequentially or on a ThreadPoolExecutor, summarizes    *)
(* the history, and main.run_program turns the value into the exit code.   *)
(***************************************************************************)
EXTENDS Integers, Sequences, FiniteSets, TLC

\* ---------------------------------------------------------------- bounds
MaxCases == 2
MaxJobs == 2
\* the length of the outputs of a comparison taken alone
MaxLen == 3
\* the largest float tolerance of a comparison taken alone, in units of 1/TolUnit
MaxTolerance == 110
\* the number of files in a directory of test cases
MaxFiles == 3

\* ------------------------------------------------------- Python Optional
None == <<>>
Some(x) == <<x>>

\* ------------------------------------------------------------ byte strings
\* A bytes value is a sequence of one-byte tokens; "xFF" is a byte that is
\* not valid UTF-8, "xEF" "xBF" "xBD" are the UTF-8 encoding of U+FFFD.
\* A str value is a sequence of characters; "uFFFD" is U+FFFD.
IsSpace(c) == c \in {" ", "\t", "\n", "\r", "\f"}

RECURSIVE rstrip(_)
rstrip(s) ==
    IF s = <<>> THEN s
    ELSE IF IsSpace(s[Len(s)]) THEN rstrip(SubSeq(s, 1, Len(s) - 1))
    ELSE s

RECURSIVE lstrip(_)
lstrip(s) ==
    IF s = <<>> THEN s
    ELSE IF IsSpace(s[1]) THEN lstrip(Tail(s))
    ELSE s

strip(s) == lstrip(rstrip(s))

RECURSIVE decode_replace(_)
decode_replace(b) ==
    IF b = <<>> THEN <<>>
    ELSE IF Len(b) >= 3 /\ SubSeq(b, 1, 3) = <<"xEF", "xBF", "xBD">>
         THEN <<"uFFFD">> \o decode_replace(SubSeq(b, 4, Len(b)))
    ELSE IF b[1] \in {"xFF", "xEF", "xBF", "xBD"}
         THEN <<"uFFFD">> \o decode_replace(Tail(b))
    ELSE <<b[1]>> \o decode_replace(Tail(b))

RECURSIVE encode(_)
encode(s) ==
    IF s = <<>> THEN <<>>
    ELSE IF s[1] = "uFFFD" THEN <<"xEF", "xBF", "xBD">> \o encode(Tail(s))
    ELSE <<s[1]>> \o encode(Tail(s))

\* ------------------------------------------------------------ comparators
RECURSIVE replace_crlf(_)
replace_crlf(b) ==
    IF b = <<>> THEN <<>>
    ELSE IF Len(b) >= 2 /\ b[1] = "\r" /\ b[2] = "\n"
         THEN <<"\n">> \o replace_crlf(SubSeq(b, 3, Len(b)))
    ELSE <<b[1]>> \o replace_crlf(Tail(b))

ExactComparator(actual, expected) == actual = expected

\* float(token): a token of decimal digits with at most one "." and at least
\* one digit is a number, kept in units of 1/Unit; anything else does not parse
IsDigit(c) == c \in {"0", "1", "2", "3", "4", "5", "6", "7", "8", "9"}

DigitValue(c) ==
    CASE c = "0" -> 0 [] c = "1" -> 1 [] c = "2" -> 2 [] c = "3" -> 3 [] c = "4" -> 4
      [] c = "5" -> 5 [] c = "6" -> 6 [] c = "7" -> 7 [] c = "8" -> 8 [] c = "9" -> 9

FracDigits == 5

RECURSIVE Pow10(_)
Pow10(n) == IF n = 0 THEN 1 ELSE 10 * Pow10(n - 1)

Unit == Pow10(FracDigits)

\* the value of the digits before the point
RECURSIVE int_part(_, _)
int_part(tok, acc) ==
    IF tok = <<>> \/ tok[1] = "." THEN acc
    ELSE int_part(Tail(tok), 10 * acc + DigitValue(tok[1]))

\* the value of the digits after the point, in units of 1/Unit
RECURSIVE frac_part(_, _)
frac_part(digits, place) ==
    IF digits = <<>> \/ place = 0 THEN 0
    ELSE DigitValue(digits[1]) * Pow10(place - 1) + frac_part(Tail(digits), place - 1)

after_point(tok) ==
    LET dots == {k \in 1..Len(tok) : tok[k] = "."}
    IN IF dots = {} THEN <<>>
       ELSE LET d == CHOOSE k \in dots : TRUE IN SubSeq(tok, d + 1, Len(tok))

parse_float(tok) ==
    LET dots == {k \in 1..Len(tok) : tok[k] = "."}
        digits == {k \in 1..Len(tok) : IsDigit(tok[k])}
    IN IF Cardinality(dots) <= 1 /\ digits # {} /\ Cardinality(dots) + Cardinality(digits) = Len(tok)
       THEN Some(int_part(tok, 0) * Unit + frac_part(after_point(tok), FracDigits))
       ELSE None

\* a tolerance is kept in units of 1/TolUnit
TolUnit == Pow10(FracDigits + 2)

Abs(x) == IF x < 0 THEN -x ELSE x
Max(x, y) == IF x < y THEN y ELSE x

\* math.isclose(x, y, rel_tol, abs_tol): |x - y| <= max(rel_tol * max(|x|, |y|), abs_tol)
isclose(x, y, rel_tol, abs_tol) ==
    Abs(x - y) <= Max(rel_tol * Max(Abs(x), Abs(y)), abs_tol * Unit) \div TolUnit

FloatingPointNumberComparator(rel_tol, abs_tol, actual, expected) ==
    LET x == parse_float(actual)
        y == parse_float(expected)
    IN IF x # None /\ y # None THEN isclose(x[1], y[1], rel_tol, abs_tol)
       ELSE actual = expected

\* the tolerance is not used
word_comparator_exact(error, actual, expected) == ExactComparator(actual, expected)

\* build_match_function, lines 132-135: the comparator of one token
word_comparator(error, actual, expected) ==
    IF error # None THEN FloatingPointNumberComparator(error[1], error[1], actual, expected)
    ELSE ExactComparator(actual, expected)

\* bytes.split(): the maximal runs of non-whitespace bytes, in order
RECURSIVE split_ws(_, _)
split_ws(b, cur) ==
    IF b = <<>> THEN (IF cur = <<>> THEN <<>> ELSE <<cur>>)
    ELSE IF IsSpace(b[1])
         THEN (IF cur = <<>> THEN <<>> ELSE <<cur>>) \o split_ws(Tail(b), <<>>)
    ELSE split_ws(Tail(b), Append(cur, b[1]))

\* bytes.split(b'\n'): the pieces between newlines, empty pieces included
RECURSIVE split_nl(_, _)
split_nl(b, cur) ==
    IF b = <<>> THEN <<cur>>
    ELSE IF b[1] = "\n" THEN <<cur>> \o split_nl(Tail(b), <<>>)
    ELSE split_nl(Tail(b), Append(cur, b[1]))

RECURSIVE rstrip_nl(_)
rstrip_nl(b) ==
    IF b = <<>> THEN b
    ELSE IF b[Len(b)] = "\n" THEN rstrip_nl(SubSeq(b, 1, Len(b) - 1))
    ELSE b

\* SplitComparator(word_comparator)
SplitComparator(error, actual, expected) ==
    LET a == split_ws(actual, <<>>)
        e == split_ws(expected, <<>>)
    IN Len(a) = Len(e) /\ \A k \in 1..Len(a) : word_comparator(error, a[k], e[k])

\* SplitLinesComparator(SplitComparator(word_comparator))
SplitLinesComparator(error, actual, expected) ==
    LET a == split_nl(rstrip_nl(actual), <<>>)
        e == split_nl(rstrip_nl(expected), <<>>)
    IN Len(a) = Len(e) /\ \A k \in 1..Len(a) : SplitComparator(error, a[k], e[k])

\* ignore-spaces ignores newlines too
file_comparator_ignore_newlines(compare_mode, error, actual, expected) ==
    IF compare_mode = "exact-match" /\ error = None
    THEN ExactComparator(actual, expected)
    ELSE IF compare_mode = "crlf-insensitive-exact-match" /\ error = None
    THEN ExactComparator(replace_crlf(actual), replace_crlf(expected))
    ELSE IF compare_mode \in {"exact-match", "crlf-insensitive-exact-match"}
    THEN SplitLinesComparator(error, replace_crlf(actual), replace_crlf(expected))
    ELSE SplitComparator(error, replace_crlf(actual), replace_crlf(expected))

\* with a tolerance every mode compares the tokens only
file_comparator_tolerance_tokens(compare_mode, error, actual, expected) ==
    IF compare_mode = "exact-match" /\ error = None
    THEN ExactComparator(actual, expected)
    ELSE IF compare_mode = "crlf-insensitive-exact-match" /\ error = None
    THEN ExactComparator(replace_crlf(actual), replace_crlf(expected))
    ELSE IF compare_mode = "ignore-spaces" /\ error = None
    THEN SplitLinesComparator(error, replace_crlf(actual), replace_crlf(expected))
    ELSE SplitComparator(error, replace_crlf(actual), replace_crlf(expected))

\* the default mode compares the bytes as they are
file_comparator_crlf_sensitive(compare_mode, error, actual, expected) ==
    IF compare_mode \in {"exact-match", "crlf-insensitive-exact-match"} /\ error = None
    THEN ExactComparator(actual, expected)
    ELSE IF compare_mode \in {"exact-match", "crlf-insensitive-exact-match", "ignore-spaces"}
    THEN SplitLinesComparator(error, replace_crlf(actual), replace_crlf(expected))
    ELSE SplitComparator(error, replace_crlf(actual), replace_crlf(expected))

\* build_match_function, lines 124-142: the comparator selected by the mode
\* and the float tolerance
file_comparator(compare_mode, error, actual, expected) ==
    IF compare_mode = "exact-match" /\ error = None
    THEN ExactComparator(actual, expected)
    ELSE IF compare_mode = "crlf-insensitive-exact-match" /\ error = None
    THEN ExactComparator(replace_crlf(actual), replace_crlf(expected))
    ELSE IF compare_mode \in {"exact-match", "crlf-insensitive-exact-match", "ignore-spaces"}
    THEN SplitLinesComparator(error, replace_crlf(actual), replace_crlf(expected))
    ELSE SplitComparator(error, replace_crlf(actual), replace_crlf(expected))

\* build_match_function, lines 123-129: the two modes that compare byte by byte
is_exact(compare_mode, error) ==
    compare_mode \in {"exact-match", "crlf-insensitive-exact-match"} /\ error = None

\* compare_outputs, line 164: the comparator of the hint
non_strict_comparator(actual, expected) ==
    SplitComparator(None, replace_crlf(actual), replace_crlf(expected))

\* compare_outputs, lines 157-166: the outcome of the comparison made for the
\* warning 'This would be AC if spaces and newlines were ignored', or None
\* when that comparison is not made
hint(compare_mode, error, actual, expected) ==
    IF expected = <<>> THEN None
    ELSE IF ~file_comparator(compare_mode, error, strip(actual), strip(expected))
            /\ is_exact(compare_mode, error)
    THEN Some(non_strict_comparator(strip(actual), strip(expected)))
    ELSE None

\* the outputs match when the comparison of the hint matches
compare_outputs_hint_decides(compare_mode, error, actual, expected) ==
    IF expected = <<>> THEN FALSE
    ELSE \/ file_comparator(compare_mode, error, strip(actual), strip(expected))
         \/ /\ is_exact(compare_mode, error)
            /\ non_strict_comparator(strip(actual), strip(expected))

\* an empty expected output is compared like any other
compare_outputs_empty_expected(compare_mode, error, actual, expected) ==
    file_comparator(compare_mode, error, strip(actual), strip(expected))

\* the outputs are compared as they are given
compare_outputs_no_strip(compare_mode, error, actual, expected) ==
    IF expected = <<>> THEN FALSE
    ELSE file_comparator(compare_mode, error, actual, expected)

\* build_match_function.compare_outputs, lines 144-167
compare_outputs(compare_mode, error, actual, expected) ==
    IF expected = <<>> THEN FALSE
    ELSE file_comparator(compare_mode, error, strip(actual), strip(expected))

\* ------------------------------------------------------------ the verdict
\* run_checking_output for a case without a special judge: Optional[bool]
run_checking_output(compare_mode, error, answer, test_output) ==
    IF test_output = None THEN None
    ELSE Some(compare_outputs(compare_mode, error, rstrip(answer), rstrip(test_output[1])))

display_result(returncode, memory, mle, match_result) ==
    LET status == IF returncode = None THEN "TLE"
                  ELSE IF memory # None /\ mle # None /\ memory[1] > mle[1] THEN "MLE"
                  ELSE IF returncode[1] # 0 THEN "RE"
                  ELSE "AC"
    IN IF match_result # None /\ ~match_result[1] THEN "WA" ELSE status

\* test_single_case, lines 346-351: the status of the case
case_status(returncode, memory, mle, match_result, test_output, judge) ==
    IF match_result = None /\ test_output = None /\ ~judge THEN "AC"
    ELSE display_result(returncode, memory, mle, match_result)

\* ------------------------------------------------------------------ state
VARIABLES
    args,       \* jobs, judge, mle, compare_mode of the argparse namespace
    tests,      \* run: the list of (name, (input_path, output_path))
    pc,         \* run / run_program: where the main thread is
    idx,        \* run: the position of the loop over tests or futures
    queue,      \* ThreadPoolExecutor: submitted cases not yet taken
    futures,    \* run: futures[i] is the result of case i once it is set
    worker,     \* the frame of test_single_case in each thread (0: main thread)
    lock,       \* threading.Lock: the thread that holds it
    spawned,    \* how often the candidate command was started for each case
    history,    \* run: the list of result dicts
    ret,        \* the value test.run returns
    exitcode,   \* the value main.run_program returns
    tempdirs,   \* file system: actual.ans of each existing temporary directory
    cmp,        \* one comparison taken alone: its inputs and its outcome
    proc,       \* one call of utils.exec_command taken alone: the child processes
    disc        \* the discovery of test cases taken alone: the files and the test list

vars == <<args, tests, pc, idx, queue, futures, worker, lock, spawned, history, ret, exitcode,
          tempdirs, cmp, proc, disc>>

Cases == 1..Len(tests)
Threads == 0..MaxJobs
MainThread == 0

\* the choices of --compare-mode (lines 58-61); the default is the second
CompareModes ==
    {"exact-match", "crlf-insensitive-exact-match", "ignore-spaces", "ignore-spaces-and-newlines"}
DefaultCompareMode == "crlf-insensitive-exact-match"
\* --error: absent, or a tolerance (here 0)
Errors == {None, Some(0)}
ExpectedFiles == { <<"a", "\n">> }
Answers == { <<"a", "\n">>, <<"b", "\n">> }
Memories == {None, Some(1), Some(3)}
MemoryLimits == {None, Some(2)}
ExitCodes == {0, 1}

\* What utils.exec_command can return for one candidate run: on a timeout no
\* output was read and the probe, killed with the process group, wrote nothing.
TimedOut == [returncode |-> None, answer |-> None, memory |-> None]
Completed(code, out, mem) == [returncode |-> Some(code), answer |-> Some(out), memory |-> mem]
AllRunResults ==
    {TimedOut} \cup {Completed(c, o, m) : c \in ExitCodes, o \in Answers, m \in Memories}
\* one run per verdict path, used when a run has several cases
SomeRunResults ==
    { TimedOut,
      Completed(0, <<"a", "\n">>, Some(1)),
      Completed(1, <<"b", "\n">>, Some(1)),
      Completed(0, <<"a", "\n">>, Some(3)) }
\* used when a run has more than two cases
FewRunResults ==
    { TimedOut,
      Completed(0, <<"a", "\n">>, Some(1)),
      Completed(1, <<"b", "\n">>, Some(1)) }
\* utils.exec_command, lines 96-97 and 110: the process that Popen starts is the
\* memory probe, and the probe starts the candidate; GNU time exits with code
\* 127 (126) when it cannot find (cannot execute) the command it is given
CandidateNotStarted == {Completed(127, <<>>, m) : m \in Memories}
RunResults ==
    IF ~args.command_found THEN CandidateNotStarted
    ELSE IF Len(tests) = 1 THEN AllRunResults
    ELSE IF Len(tests) = 2 THEN SomeRunResults
    ELSE FewRunResults

\* what subprocess.Popen does with the judge command: it starts the judge, it
\* raises FileNotFoundError or PermissionError, or it raises another OSError
\* (such as ENOEXEC for a file that is executable but has no known format)
JudgeSpawns == {"ok", "not_found", "oserror"}

\* a future whose work item raised: concurrent.futures sets the exception on
\* the future, and future.result() raises it again
Raised == <<"raised", 1>>
IsRaised(f) == Len(f) = 2
IsResult(f) == Len(f) = 1

Idle == [pc |-> "idle", case |-> 0, future |-> 0, returncode |-> None,
         stdout |-> <<>>, answer |-> <<>>,
         memory |-> None, match_result |-> None,
         tempdir |-> None, argv |-> <<>>, judge_returncode |-> None]

\* the names tempfile.TemporaryDirectory can give to a new directory
TempNames == {"tmpA", "tmpB"}

\* the comparison variable while a whole run is modelled
NoComparison == [pc |-> "off"]
\* the variables of exec_command and of the discovery while they are not modelled
NoProcess == [pc |-> "off"]
NoDiscovery == [pc |-> "off"]

\* readable: open() of the expected file succeeds; an expected file that
\* exists can be unreadable in runs of at most two cases
TestLists(n) ==
    { t \in [1..n -> [name : 1..n, output : {None} \cup {Some(e) : e \in ExpectedFiles},
                      readable : BOOLEAN]] :
        \A i \in 1..n : /\ t[i].name = i
                        /\ ~t[i].readable => t[i].output # None /\ n <= 2 }

Init ==
    /\ args \in [jobs : {None} \cup {Some(j) : j \in 1..MaxJobs},
                 judge : BOOLEAN,
                 mle : MemoryLimits,
                 compare_mode : CompareModes,
                 error : Errors,
                 gnu_time_found : BOOLEAN,
                 command_found : BOOLEAN,
                 judge_spawn : JudgeSpawns,
                 silent : BOOLEAN]
    \* at most one of the three programs fails to start in one run
    /\ Cardinality({k \in 1..3 : <<~args.gnu_time_found, ~args.command_found,
                                    args.judge_spawn # "ok">>[k]}) <= 1
    /\ ~args.judge => args.judge_spawn = "ok"
    /\ \E n \in 0..MaxCases : tests \in TestLists(n)
    \* the compare mode and the tolerance vary in the runs of one case
    /\ Len(tests) # 1 => args.compare_mode = DefaultCompareMode /\ args.error = None
    \* a program fails to start in runs of at most two cases
    /\ Len(tests) > 2 =>
          args.gnu_time_found /\ args.command_found /\ args.judge_spawn = "ok"
    \* --silent changes a run only when an expected file cannot be read
    /\ args.silent => \E i \in 1..Len(tests) : ~tests[i].readable
    /\ pc = "tests"
    /\ idx = 1
    /\ queue = <<>>
    /\ futures = [i \in Cases |-> None]
    /\ worker = [w \in Threads |-> Idle]
    /\ lock = None
    /\ spawned = [i \in Cases |-> 0]
    /\ history = <<>>
    /\ ret = None
    /\ exitcode = None
    /\ tempdirs = [d \in TempNames |-> None]
    /\ cmp = NoComparison
    /\ proc = NoProcess
    /\ disc = NoDiscovery

\* --------------------------------------------------------------- test.run
\* lines 514-516: no test case was found
NoTests ==
    /\ pc = "tests" /\ tests = <<>>
    /\ ret' = Some(1)
    /\ pc' = "returned"
    /\ UNCHANGED <<proc, disc, cmp, tempdirs, args, tests, idx, queue, futures, worker, lock, spawned, history, exitcode>>

\* lines 528-537: choose the sequential loop or the executor
StartTests ==
    /\ pc = "tests" /\ tests # <<>>
    /\ pc' = IF args.jobs = None THEN "sequential" ELSE "submit"
    /\ UNCHANGED <<proc, disc, cmp, tempdirs, args, tests, idx, queue, futures, worker, lock, spawned, history, ret, exitcode>>

\* test_single_case, lines 296-307: the line 'Test input: ...' is logged, then
\* utils.exec_command (line 110) starts the candidate with subprocess.Popen
Popen(w, i, fut) ==
    /\ worker' = [worker EXCEPT ![w] = [Idle EXCEPT !.pc = "running", !.case = i, !.future = fut]]
    /\ spawned' = [spawned EXCEPT ![i] = @ + 1]

\* an exception leaves test_single_case in thread w: in the main thread it
\* leaves run and run_program too and the process exits with code 1 (sys.exit(1)
\* of exec_command, or main.main lines 118-123); in a pool thread it is set on
\* the future of the work item
Raise(w, fut) ==
    IF w = MainThread
    THEN pc' = "exit" /\ exitcode' = Some(1) /\ futures' = futures
    ELSE pc' = pc /\ exitcode' = exitcode /\ futures' = [futures EXCEPT ![fut] = Raised]

\* line 532 and utils.exec_command lines 109-116 in the main thread: the memory
\* probe that starts the candidate is not found, sys.exit(1)
SequentialCallFails ==
    /\ pc = "sequential" /\ idx <= Len(tests)
    /\ worker[MainThread].pc = "idle"
    /\ ~args.gnu_time_found
    /\ Raise(MainThread, 0)
    /\ UNCHANGED <<proc, disc, cmp, tempdirs, args, tests, idx, queue, worker, lock, spawned, history, ret>>

\* line 532: the main thread calls test_single_case for the next case
SequentialCall ==
    /\ pc = "sequential" /\ idx <= Len(tests)
    /\ worker[MainThread].pc = "idle"
    /\ args.gnu_time_found
    /\ Popen(MainThread, idx, 0)
    /\ UNCHANGED <<proc, disc, cmp, tempdirs, args, tests, pc, idx, queue, futures, lock, history, ret, exitcode>>

\* the loop over tests stops at the first case that is not AC
SequentialEnd_stop_on_failure ==
    /\ pc = "sequential"
    /\ worker[MainThread].pc = "idle"
    /\ \/ idx > Len(tests)
       \/ history # <<>> /\ history[Len(history)].status # "AC"
    /\ pc' = "summarize"
    /\ UNCHANGED <<proc, disc, cmp, tempdirs, args, tests, idx, queue, futures, worker, lock, spawned, history, ret, exitcode>>

\* lines 531-532: the loop over tests is over
SequentialEnd ==
    /\ pc = "sequential" /\ idx > Len(tests)
    /\ pc' = "summarize"
    /\ UNCHANGED <<proc, disc, cmp, tempdirs, args, tests, idx, queue, futures, worker, lock, spawned, history, ret, exitcode>>

\* lines 539-540: executor.submit for the next case
Submit ==
    /\ pc = "submit"
    /\ queue' = Append(queue, idx)
    /\ IF idx = Len(tests) THEN pc' = "collect" /\ idx' = 1
                           ELSE pc' = pc /\ idx' = idx + 1
    /\ UNCHANGED <<proc, disc, cmp, tempdirs, args, tests, futures, worker, lock, spawned, history, ret, exitcode>>

\* a pool thread takes the oldest work item and runs it with the arguments of another
\* iteration of the loop that submitted it
WorkerTake_late_binding(w) ==
    /\ args.jobs # None /\ w \in 1..args.jobs[1]
    /\ args.gnu_time_found
    /\ worker[w].pc = "idle"
    /\ queue # <<>>
    /\ Popen(w, IF pc = "submit" THEN idx - 1 ELSE Len(tests), Head(queue))
    /\ queue' = Tail(queue)
    /\ UNCHANGED <<proc, disc, cmp, tempdirs, args, tests, pc, idx, futures, lock, history, ret, exitcode>>

\* a pool thread takes the oldest work item: test_single_case with the arguments
\* bound by executor.submit (line 540), and the future to resolve
WorkerTake(w) ==
    /\ args.jobs # None /\ w \in 1..args.jobs[1]
    /\ args.gnu_time_found
    /\ worker[w].pc = "idle"
    /\ queue # <<>>
    /\ Popen(w, Head(queue), Head(queue))
    /\ queue' = Tail(queue)
    /\ UNCHANGED <<proc, disc, cmp, tempdirs, args, tests, pc, idx, futures, lock, history, ret, exitcode>>

\* a pool thread takes the oldest work item and the memory probe that starts
\* the candidate is not found: sys.exit(1) in the pool thread (utils.exec_command
\* lines 109-116), which the executor sets on the future
WorkerTakeFails(w) ==
    /\ args.jobs # None /\ w \in 1..args.jobs[1]
    /\ ~args.gnu_time_found
    /\ worker[w].pc = "idle"
    /\ queue # <<>>
    /\ Raise(w, Head(queue))
    /\ queue' = Tail(queue)
    /\ UNCHANGED <<proc, disc, cmp, tempdirs, args, tests, idx, worker, lock, spawned, history, ret>>

\* the results are appended to the history as the futures complete
Collect_as_completed ==
    /\ pc = "collect"
    /\ \E i \in Cases :
          /\ IsResult(futures[i])
          /\ \A k \in 1..Len(history) : history[k].name # tests[i].name
          /\ history' = Append(history, futures[i][1])
    /\ IF idx = Len(tests) THEN pc' = "summarize" ELSE pc' = pc
    /\ idx' = idx + 1
    /\ UNCHANGED <<proc, disc, cmp, tempdirs, args, tests, queue, futures, worker, lock, spawned, ret, exitcode>>

\* lines 541-542: future.result() of the next future, appended to history;
\* after the last one the executor is shut down
Collect ==
    /\ pc = "collect"
    /\ IsResult(futures[idx])
    /\ history' = Append(history, futures[idx][1])
    /\ IF idx = Len(tests) THEN pc' = "summarize" ELSE pc' = pc
    /\ idx' = idx + 1
    /\ UNCHANGED <<proc, disc, cmp, tempdirs, args, tests, queue, futures, worker, lock, spawned, ret, exitcode>>

\* lines 541-542: future.result() raises what the work item raised, which
\* leaves the with block of the executor
CollectRaises ==
    /\ pc = "collect"
    /\ IsRaised(futures[idx])
    /\ pc' = "shutdown"
    /\ UNCHANGED <<proc, disc, cmp, tempdirs, args, tests, idx, queue, futures, worker, lock, spawned, history, ret, exitcode>>

\* line 536: ThreadPoolExecutor.__exit__ is shutdown(wait=True), which returns
\* when every submitted work item has run; then the exception leaves run and
\* the process exits with code 1
Shutdown ==
    /\ pc = "shutdown"
    /\ queue = <<>>
    /\ \A w \in Threads : worker[w].pc = "idle"
    /\ pc' = "exit"
    /\ exitcode' = Some(1)
    /\ UNCHANGED <<proc, disc, cmp, tempdirs, args, tests, idx, queue, futures, worker, lock, spawned, history, ret>>

\* ------------------------------------------------------- test_single_case
\* the candidate is started once more after a timeout
ExecReturn_retry(w) ==
    /\ worker[w].pc = "running"
    /\ \E info \in RunResults :
         IF info.returncode = None /\ spawned[worker[w].case] < 2
         THEN /\ spawned' = [spawned EXCEPT ![worker[w].case] = @ + 1]
              /\ worker' = worker
         ELSE /\ spawned' = spawned
              /\ worker' = [worker EXCEPT ![w] =
                    [@ EXCEPT !.pc = "waitlock",
                              !.returncode = info.returncode,
                              !.stdout = IF info.answer = None THEN <<>> ELSE info.answer[1],
                              !.answer = decode_replace(IF info.answer = None THEN <<>>
                                                        ELSE info.answer[1]),
                              !.memory = info.memory]]
    /\ UNCHANGED <<proc, disc, cmp, tempdirs, args, tests, pc, idx, queue, futures, lock, history, ret, exitcode>>

\* utils.exec_command, lines 117-144: communicate returns or times out
ExecReturn(w) ==
    /\ worker[w].pc = "running"
    /\ \E info \in RunResults :
         worker' = [worker EXCEPT ![w] =
            [@ EXCEPT !.pc = "waitlock",
                      !.returncode = info.returncode,
                      !.stdout = IF info.answer = None THEN <<>> ELSE info.answer[1],
                      !.answer = decode_replace(IF info.answer = None THEN <<>>
                                                ELSE info.answer[1]),
                      !.memory = info.memory]]
    /\ spawned' = spawned
    /\ UNCHANGED <<proc, disc, cmp, tempdirs, args, tests, pc, idx, queue, futures, lock, history, ret, exitcode>>

\* line 315: with lock or nullcontext
Acquire(w) ==
    /\ worker[w].pc = "waitlock"
    /\ IF w = MainThread THEN lock' = lock
       ELSE lock = None /\ lock' = Some(w)
    /\ worker' = [worker EXCEPT ![w].pc = "locked"]
    /\ UNCHANGED <<proc, disc, cmp, tempdirs, args, tests, pc, idx, queue, futures, spawned, history, ret, exitcode>>

\* lines 342-343 without a judge command: compare_outputs or no comparison
Check(w) ==
    /\ worker[w].pc = "locked" /\ ~args.judge
    /\ tests[worker[w].case].readable
    /\ LET f == worker[w]
       IN worker' = [worker EXCEPT ![w] =
            [f EXCEPT !.pc = "display",
                      !.match_result = run_checking_output(args.compare_mode, args.error,
                                          encode(f.answer), tests[f.case].output)]]
    /\ UNCHANGED <<proc, disc, cmp, tempdirs, args, tests, pc, idx, queue, futures, lock, spawned, history, ret, exitcode>>

\* run_checking_output, lines 206-208: what is returned when an exception
\* leaves the `try` that opens and reads the expected file
read_error_result_unknown == None
read_error_result == Some(FALSE)

\* lines 342-343 with an expected file that cannot be opened: the `open` of
\* line 184 raises, match_function is not called and no judge is started
ExpectedUnreadable(w) ==
    /\ worker[w].pc = "locked"
    /\ ~tests[worker[w].case].readable
    /\ worker' = [worker EXCEPT ![w] =
          [worker[w] EXCEPT !.pc = "display", !.match_result = read_error_result]]
    /\ UNCHANGED <<proc, disc, cmp, tempdirs, args, tests, pc, idx, queue, futures, lock, spawned, history, ret, exitcode>>

\* display_result, lines 260-269: for a failed comparison that is not silent
\* the expected file is opened again, outside of any `try`
display_result_raises(match_result, test, silent) ==
    /\ match_result # None /\ ~match_result[1]
    /\ ~silent
    /\ test.output # None /\ ~test.readable

\* ------------------------------------------------------------ SpecialJudge
\* the words of the paths and of the judge command; " " is a space
CaseDigit(i) == <<"1", "2", "3", "4">>[i]
judge_command == <<"./judge">>
input_path(i) == <<"/t/", CaseDigit(i), ".in">>
expected_output_path(i) == IF tests[i].output = None THEN None
                           ELSE Some(<<"/t/", CaseDigit(i), ".out">>)
\* line 86: pathlib.Path(tempdir) / 'actual.ans'
actual_output_path(d) == <<"/", d, "/actual.ans">>

\* ' '.join(parts)
RECURSIVE join(_)
join(parts) ==
    IF parts = <<>> THEN <<>>
    ELSE IF Len(parts) = 1 THEN parts[1]
    ELSE parts[1] \o <<" ">> \o join(Tail(parts))

\* utils.exec_command, line 96: shlex.split of a string without quotes
shlex_split(command_str) == split_ws(command_str, <<>>)

\* SpecialJudge.run, lines 91-96
command(i, d) ==
    join(<<judge_command, input_path(i), actual_output_path(d),
           IF expected_output_path(i) # None THEN expected_output_path(i)[1] ELSE <<>> >>)

\* run_checking_output, lines 189-192 and 208: the bytes given to match_function
actual_output(answer, test_output) ==
    IF test_output # None THEN rstrip(answer) ELSE answer

\* the lock is given back before the judge process is started
JudgeStart_unlocked(w) ==
    /\ worker[w].pc = "locked" /\ args.judge /\ args.judge_spawn = "ok"
    /\ tests[worker[w].case].readable
    /\ \E d \in TempNames :
         /\ tempdirs[d] = None
         /\ LET f == worker[w]
            IN /\ tempdirs' = [tempdirs EXCEPT
                     ![d] = Some(actual_output(encode(f.answer), tests[f.case].output))]
               /\ worker' = [worker EXCEPT ![w] =
                     [f EXCEPT !.pc = "judging", !.tempdir = Some(d),
                               !.argv = shlex_split(command(f.case, d))]]
    /\ lock' = None
    /\ UNCHANGED <<proc, disc, cmp, args, tests, pc, idx, queue, futures, spawned, history, ret, exitcode>>

\* lines 342-343 with a judge command, SpecialJudge.run lines 85-99: a new
\* temporary directory, actual.ans written, the judge process started
JudgeStart(w) ==
    /\ worker[w].pc = "locked" /\ args.judge /\ args.judge_spawn = "ok"
    /\ tests[worker[w].case].readable
    /\ \E d \in TempNames :
         /\ tempdirs[d] = None
         /\ LET f == worker[w]
            IN /\ tempdirs' = [tempdirs EXCEPT
                     ![d] = Some(actual_output(encode(f.answer), tests[f.case].output))]
               /\ worker' = [worker EXCEPT ![w] =
                     [f EXCEPT !.pc = "judging", !.tempdir = Some(d),
                               !.argv = shlex_split(command(f.case, d))]]
    /\ lock' = lock
    /\ UNCHANGED <<proc, disc, cmp, args, tests, pc, idx, queue, futures, spawned, history, ret, exitcode>>

\* lines 342-343 with a judge command that cannot be started. SpecialJudge.run
\* line 99 calls utils.exec_command: FileNotFoundError and PermissionError
\* become sys.exit(1) (lines 111-116), and SystemExit is not an Exception; any
\* other exception of Popen is caught by run_checking_output (lines 206-208)
\* when the case has an expected file, and False is returned. `with lock` and
\* `with tempfile.TemporaryDirectory()` are left on the way.
JudgeStartFails(w) ==
    /\ worker[w].pc = "locked" /\ args.judge /\ args.judge_spawn # "ok"
    /\ tests[worker[w].case].readable
    /\ LET f == worker[w]
       IN IF args.judge_spawn = "oserror" /\ tests[f.case].output # None
          THEN /\ worker' = [worker EXCEPT ![w] =
                     [f EXCEPT !.pc = "display", !.match_result = Some(FALSE)]]
               /\ UNCHANGED <<pc, exitcode, futures, lock>>
          ELSE /\ worker' = [worker EXCEPT ![w] = Idle]
               /\ Raise(w, f.future)
               /\ lock' = IF w = MainThread THEN lock ELSE None
    /\ UNCHANGED <<proc, disc, cmp, tempdirs, args, tests, idx, queue, spawned, history, ret>>

\* the exit code of the judge and the built-in comparison both have to accept
JudgeReturn_and_compare(w) ==
    /\ worker[w].pc = "judging"
    /\ \E code \in ExitCodes :
         LET f == worker[w]
             builtin == run_checking_output(args.compare_mode, args.error,
                                            encode(f.answer), tests[f.case].output)
         IN /\ worker' = [worker EXCEPT ![w] =
                  [f EXCEPT !.pc = "display",
                            !.match_result = Some(code = 0 /\ builtin # Some(FALSE)),
                            !.judge_returncode = Some(code),
                            !.tempdir = None, !.argv = <<>>]]
            /\ tempdirs' = [tempdirs EXCEPT ![f.tempdir[1]] = None]
    /\ UNCHANGED <<proc, disc, cmp, args, tests, pc, idx, queue, futures, lock, spawned, history, ret, exitcode>>

\* the temporary directory is left behind
JudgeReturn_keep_tempdir(w) ==
    /\ worker[w].pc = "judging"
    /\ \E code \in ExitCodes :
         LET f == worker[w]
         IN worker' = [worker EXCEPT ![w] =
               [f EXCEPT !.pc = "display", !.match_result = Some(code = 0),
                         !.judge_returncode = Some(code),
                         !.tempdir = None, !.argv = <<>>]]
    /\ UNCHANGED <<proc, disc, cmp, tempdirs, args, tests, pc, idx, queue, futures, lock, spawned, history, ret, exitcode>>

\* SpecialJudge.run, lines 99-102: the judge process exits, the temporary
\* directory is removed, the exit code is compared with 0
JudgeReturn(w) ==
    /\ worker[w].pc = "judging"
    /\ \E code \in ExitCodes :
         LET f == worker[w]
         IN /\ worker' = [worker EXCEPT ![w] =
                  [f EXCEPT !.pc = "display", !.match_result = Some(code = 0),
                            !.judge_returncode = Some(code),
                            !.tempdir = None, !.argv = <<>>]]
            /\ tempdirs' = [tempdirs EXCEPT ![f.tempdir[1]] = None]
    /\ UNCHANGED <<proc, disc, cmp, args, tests, pc, idx, queue, futures, lock, spawned, history, ret, exitcode>>

\* lines 354-367: the result dict of the frame
Result(f, status) ==
    [name |-> tests[f.case].name, status |-> status, output |-> f.answer,
     exitcode |-> f.returncode, memory |-> f.memory]

\* the result of the case is put in front of the history
Display_prepends(w) ==
    /\ worker[w].pc = "display"
    /\ ~display_result_raises(worker[w].match_result, tests[worker[w].case], args.silent)
    /\ LET f == worker[w]
           r == Result(f, case_status(f.returncode, f.memory, args.mle, f.match_result,
                                      tests[f.case].output, args.judge))
       IN IF w = MainThread
          THEN /\ history' = <<r>> \o history
               /\ idx' = idx + 1
               /\ UNCHANGED <<futures, lock>>
          ELSE /\ futures' = [futures EXCEPT ![f.future] = Some(r)]
               /\ lock' = None
               /\ UNCHANGED <<history, idx>>
    /\ worker' = [worker EXCEPT ![w] = Idle]
    /\ UNCHANGED <<proc, disc, cmp, tempdirs, args, tests, pc, queue, spawned, ret, exitcode>>

\* lines 346-367: the status is decided, the lock released, the result returned
Display(w) ==
    /\ worker[w].pc = "display"
    /\ ~display_result_raises(worker[w].match_result, tests[worker[w].case], args.silent)
    /\ LET f == worker[w]
           r == Result(f, case_status(f.returncode, f.memory, args.mle, f.match_result,
                                      tests[f.case].output, args.judge))
       IN IF w = MainThread
          THEN /\ history' = Append(history, r)
               /\ idx' = idx + 1
               /\ UNCHANGED <<futures, lock>>
          ELSE /\ futures' = [futures EXCEPT ![f.future] = Some(r)]
               /\ lock' = None
               /\ UNCHANGED <<history, idx>>
    /\ worker' = [worker EXCEPT ![w] = Idle]
    /\ UNCHANGED <<proc, disc, cmp, tempdirs, args, tests, pc, queue, spawned, ret, exitcode>>

\* line 351 when display_result raises the OSError of its `open`: `with lock`
\* is left, the exception leaves test_single_case and no result is returned
DisplayRaises(w) ==
    /\ worker[w].pc = "display"
    /\ display_result_raises(worker[w].match_result, tests[worker[w].case], args.silent)
    /\ worker' = [worker EXCEPT ![w] = Idle]
    /\ Raise(w, worker[w].future)
    /\ lock' = IF w = MainThread THEN lock ELSE None
    /\ UNCHANGED <<proc, disc, cmp, tempdirs, args, tests, idx, queue, spawned, history, ret>>

\* --------------------------------------------------- summary and exit code
\* the run passes as soon as one case is AC
all_passed_any(h) ==
    LET ac_count == Cardinality({k \in 1..Len(h) : h[k].status = "AC"})
    IN IF ac_count = 0 THEN 1 ELSE 0

\* lines 562-573
all_passed(h) ==
    LET ac_count == Cardinality({k \in 1..Len(h) : h[k].status = "AC"})
        total_count == Len(h)
    IN IF total_count = 0 THEN 1
       ELSE IF ac_count # total_count THEN 1
       ELSE 0

Summarize ==
    /\ pc = "summarize"
    /\ ret' = Some(all_passed(history))
    /\ pc' = "returned"
    /\ UNCHANGED <<proc, disc, cmp, tempdirs, args, tests, idx, queue, futures, worker, lock, spawned, history, exitcode>>

\* main.run_program, lines 60-62 and 88: `if not subcommand_test.run(args): return 1`
run_program(r) == IF r = 0 THEN 1 ELSE 0

RunProgram ==
    /\ pc = "returned"
    /\ exitcode' = Some(run_program(ret[1]))
    /\ pc' = "exit"
    /\ UNCHANGED <<proc, disc, cmp, tempdirs, args, tests, idx, queue, futures, worker, lock, spawned, history, ret>>

Next ==
    \/ NoTests
    \/ StartTests
    \/ SequentialCall
    \/ SequentialEnd
    \/ Submit
    \/ Collect
    \/ Summarize
    \/ SequentialCallFails
    \/ CollectRaises
    \/ Shutdown
    \/ RunProgram
    \/ \E w \in Threads :
         \/ WorkerTake(w)
         \/ ExecReturn(w)
         \/ Acquire(w)
         \/ Check(w)
         \/ JudgeStart(w)
         \/ JudgeReturn(w)
         \/ Display(w)
         \/ WorkerTakeFails(w)
         \/ JudgeStartFails(w)
         \/ ExpectedUnreadable(w)
         \/ DisplayRaises(w)

Spec == Init /\ [][Next]_vars

\* ------------------------------------------------- runs that have to end
\* the runs in which every program can be started; the compare mode, the
\* tolerance and the memory limit are the defaults, they change the verdict of
\* a case and not the steps of the run
InitLive ==
    /\ Init
    /\ args.gnu_time_found /\ args.command_found /\ args.judge_spawn = "ok"
    /\ args.mle = None /\ args.compare_mode = DefaultCompareMode /\ args.error = None
    /\ \A i \in 1..Len(tests) : tests[i].readable

\* the steps that end by themselves: the harness's own code, and the wait for
\* the candidate, which utils.exec_command line 119 bounds with
\* `proc.communicate(input=input, timeout=timeout)`
Progress ==
    \/ NoTests
    \/ StartTests
    \/ SequentialCall
    \/ SequentialEnd
    \/ Submit
    \/ Collect
    \/ Summarize
    \/ RunProgram
    \/ \E w \in Threads :
         \/ WorkerTake(w)
         \/ ExecReturn(w)
         \/ Acquire(w)
         \/ Check(w)
         \/ JudgeStart(w)
         \/ Display(w)

\* SpecialJudge.run line 99 is `utils.exec_command(command)`: no timeout is
\* passed, `proc.communicate(input=None, timeout=None)` returns when the judge
\* exits and not before
NextLive ==
    \/ Progress
    \/ \E w \in Threads : JudgeReturn(w)

\* every step that ends by itself is taken; the judge exits or it does not
SpecLive == InitLive /\ [][NextLive]_vars /\ WF_vars(Progress)

\* ---------------------------------------------- one comparison taken alone
\* test_single_case for one case that has an expected file, no judge command,
\* and whose candidate exits with code 0 within the limits: stdout is what the
\* candidate wrote, expected is the content of the expected file.
Strings(alphabet, n) == UNION {[1..k -> alphabet] : k \in 0..n}

Comparison(compare_mode, error, stdout, expected) ==
    [pc |-> "input", compare_mode |-> compare_mode, error |-> error,
     stdout |-> stdout, expected |-> expected,
     answer |-> <<>>, match_result |-> None, hint |-> None, status |-> "none"]

\* no run of the test subcommand is in progress
NoRun ==
    /\ args = [jobs |-> None, judge |-> FALSE, mle |-> None,
               compare_mode |-> DefaultCompareMode, error |-> None,
               gnu_time_found |-> TRUE, command_found |-> TRUE, judge_spawn |-> "ok",
               silent |-> FALSE]
    /\ tests = <<>>
    /\ pc = "off"
    /\ idx = 1
    /\ queue = <<>>
    /\ futures = <<>>
    /\ worker = [w \in Threads |-> Idle]
    /\ lock = None
    /\ spawned = <<>>
    /\ history = <<>>
    /\ ret = None
    /\ exitcode = None
    /\ tempdirs = [d \in TempNames |-> None]

\* lines 309 and 342-351: the output is decoded, encoded again, compared,
\* and display_result decides the status
Compare ==
    /\ cmp.pc = "input"
    /\ LET answer == decode_replace(cmp.stdout)
           match_result == run_checking_output(cmp.compare_mode, cmp.error,
                                               encode(answer), Some(cmp.expected))
       IN cmp' = [cmp EXCEPT !.pc = "done", !.answer = answer,
                             !.match_result = match_result,
                             !.hint = hint(cmp.compare_mode, cmp.error,
                                           rstrip(encode(answer)), rstrip(cmp.expected)),
                             !.status = case_status(Some(0), None, None, match_result,
                                                    Some(cmp.expected), FALSE)]
    /\ UNCHANGED <<proc, disc, tempdirs, args, tests, pc, idx, queue, futures, worker, lock, spawned,
                   history, ret, exitcode>>

NextCompare == Compare

\* exact-match on outputs of letters, spaces, newlines and a byte that is not UTF-8
ExactAlphabet == {"a", " ", "\n", "xFF"}
InitExact ==
    /\ NoRun /\ proc = NoProcess /\ disc = NoDiscovery
    /\ cmp \in {Comparison("exact-match", None, o, e) :
                   o \in Strings(ExactAlphabet, MaxLen), e \in Strings(ExactAlphabet, MaxLen)}
SpecExact == InitExact /\ [][NextCompare]_vars

\* the default mode on outputs of letters, carriage returns and newlines
CrlfAlphabet == {"a", "\r", "\n"}
InitCrlf ==
    /\ NoRun /\ proc = NoProcess /\ disc = NoDiscovery
    /\ cmp \in {Comparison("crlf-insensitive-exact-match", None, o, e) :
                   o \in Strings(CrlfAlphabet, MaxLen + 2),
                   e \in Strings(CrlfAlphabet, MaxLen + 1)}
SpecCrlf == InitCrlf /\ [][NextCompare]_vars

\* the modes that ignore spaces without a tolerance, and every mode with a
\* tolerance, on outputs of letters, spaces and newlines
SpacesAlphabet == {"a", " ", "\n"}
SpacesModes ==
    ({"ignore-spaces", "ignore-spaces-and-newlines"} \X {None}) \cup (CompareModes \X {Some(0)})
InitSpaces ==
    /\ NoRun /\ proc = NoProcess /\ disc = NoDiscovery
    /\ cmp \in {Comparison(m[1], m[2], o, e) :
                   m \in SpacesModes,
                   o \in Strings(SpacesAlphabet, MaxLen + 1),
                   e \in Strings(SpacesAlphabet, MaxLen)}
SpecSpaces == InitSpaces /\ [][NextCompare]_vars

\* every mode with a tolerance on outputs of one token and a newline
Tokens ==
    { <<"1", ".", "0">>, <<"1", ".", "0", "0", "0", "0", "1">>, <<"1">>, <<"1", ".">>,
      <<"a">>, <<"1", ".", "0", "a">>, <<".">> }
Tolerances == 0..MaxTolerance
InitFloat ==
    /\ NoRun /\ proc = NoProcess /\ disc = NoDiscovery
    /\ cmp \in {Comparison(m, Some(t), x \o <<"\n">>, y \o <<"\n">>) :
                   m \in CompareModes, t \in Tolerances, x \in Tokens, y \in Tokens}
SpecFloat == InitFloat /\ [][NextCompare]_vars

\* every mode, with and without a tolerance, against expected files that are
\* empty or hold only whitespace
BlankAlphabet == {" ", "\n", "\t"}
InitBlank ==
    /\ NoRun /\ proc = NoProcess /\ disc = NoDiscovery
    /\ cmp \in {Comparison(m, t, o, e) :
                   m \in CompareModes, t \in Errors,
                   o \in Strings(SpacesAlphabet, MaxLen),
                   e \in Strings(BlankAlphabet, MaxLen)}
SpecBlank == InitBlank /\ [][NextCompare]_vars

\* ------------------------------------------- utils.exec_command taken alone
\* One call of exec_command, lines 87-144. Process 1 is the child that Popen
\* starts: the memory probe when gnu_time is given, the command itself
\* otherwise. Process 2 is a descendant of it: the command that the probe
\* runs, or a child of the command. A process that gets SIGTERM and has the
\* default disposition is "terminating" until the kernel has ended it; a
\* process that ignores SIGTERM goes on running.
Processes == {1, 2}
ProcessStates == {"none", "running", "terminating", "exited"}

Execution(gnu_time, posix, timeout, polls, descendant, ignores) ==
    [pc |-> "start", gnu_time |-> gnu_time, posix |-> posix, timeout |-> timeout,
     polls |-> polls, descendant |-> descendant, ignores |-> ignores,
     state |-> [p \in Processes |-> "none"],
     expired |-> FALSE, returncode |-> None]

\* lines 104-106: os.setsid is the preexec_fn with a probe on POSIX
preexec_fn(e) == e.gnu_time /\ e.posix

InitExec ==
    /\ NoRun /\ cmp = NoComparison /\ disc = NoDiscovery
    /\ proc \in {Execution(g, x, t, py, d, i) :
                    g \in BOOLEAN, x \in BOOLEAN, t \in BOOLEAN, py \in BOOLEAN,
                    d \in BOOLEAN, i \in [Processes -> BOOLEAN]}
    \* the probe runs the command, and GNU time does not ignore SIGTERM
    /\ proc.gnu_time => proc.descendant /\ ~proc.ignores[1]
    /\ ~proc.descendant => ~proc.ignores[2]
    \* TerminateProcess of Windows cannot be ignored
    /\ ~proc.posix => \A p \in Processes : ~proc.ignores[p]

UnchangedRun ==
    UNCHANGED <<disc, cmp, tempdirs, args, tests, pc, idx, queue, futures, worker, lock,
                spawned, history, ret, exitcode>>

\* line 110: subprocess.Popen
ExecPopen ==
    /\ proc.pc = "start"
    /\ proc' = [proc EXCEPT !.pc = "communicate",
                            !.state = [p \in Processes |->
                                IF p = 1 \/ proc.descendant THEN "running" ELSE "none"]]
    /\ UnchangedRun

\* a process ends by itself; the probe ends when the command it runs has ended
ProcessExits(p) ==
    /\ proc.pc # "start"
    /\ proc.state[p] = "running"
    /\ (p = 1 /\ proc.gnu_time) => proc.state[2] = "exited"
    /\ proc' = [proc EXCEPT !.state[p] = "exited"]
    /\ UnchangedRun

\* the kernel ends a process that got SIGTERM
ProcessDies(p) ==
    /\ proc.state[p] = "terminating"
    /\ proc' = [proc EXCEPT !.state[p] = "exited"]
    /\ UnchangedRun

\* line 119: communicate returns when the child has exited, and sets returncode
CommunicateReturns ==
    /\ proc.pc = "communicate"
    /\ proc.state[1] = "exited"
    /\ \E code \in ExitCodes : proc' = [proc EXCEPT !.pc = "finally", !.returncode = Some(code)]
    /\ UnchangedRun

\* lines 120-121: the time limit passes before communicate is done
TimeoutExpired ==
    /\ proc.pc = "communicate"
    /\ proc.timeout
    /\ \E p \in Processes : proc.state[p] = "running"
    /\ proc' = [proc EXCEPT !.pc = "finally", !.expired = TRUE]
    /\ UnchangedRun

\* SIGTERM reaches process p
sigterm(e, p) ==
    IF e.state[p] = "running" /\ ~e.ignores[p] THEN "terminating" ELSE e.state[p]

\* lines 122-129: os.killpg with SIGTERM of the group of the child, or
\* proc.terminate(), which since Python 3.9 polls the child first and sends
\* nothing when it has exited; exec_command returns without waiting
finally(e, code) ==
    IF preexec_fn(e)
    THEN [e EXCEPT !.pc = "returned", !.state = [p \in Processes |-> sigterm(e, p)]]
    ELSE IF e.polls /\ e.state[1] = "exited" /\ e.returncode = None
         THEN [e EXCEPT !.pc = "returned", !.returncode = Some(code)]
         ELSE [e EXCEPT !.pc = "returned", !.state[1] = sigterm(e, 1)]

Terminate ==
    /\ proc.pc = "finally"
    /\ \E code \in ExitCodes : proc' = finally(proc, code)
    /\ UnchangedRun

NextExec ==
    \/ ExecPopen
    \/ CommunicateReturns
    \/ TimeoutExpired
    \/ Terminate
    \/ \E p \in Processes : ProcessExits(p) \/ ProcessDies(p)

SpecExec == InitExec /\ [][NextExec]_vars

\* ------------------------------------------ the discovery of the test cases
\* format_utils.glob_with_format and the part of test.run that builds the list
\* of tests (lines 436-516), for the default format '%s.%e'. A file name is the
\* sequence of its characters; a path is a directory name and a file name.
In == <<".", "i", "n">>
Out == <<".", "o", "u", "t">>
Ans == <<".", "a", "n", "s">>

\* the code points of the characters of the file names
Ord(c) ==
    CASE c = "#" -> 35 [] c = "." -> 46 [] c = "_" -> 95 [] c = "a" -> 97 [] c = "b" -> 98
      [] c = "c" -> 99 [] c = "d" -> 100 [] c = "i" -> 105 [] c = "n" -> 110 [] c = "o" -> 111
      [] c = "s" -> 115 [] c = "t" -> 116 [] c = "u" -> 117 [] c = "~" -> 126

\* str.__lt__
RECURSIVE Less(_, _)
Less(x, y) ==
    IF y = <<>> THEN FALSE
    ELSE IF x = <<>> THEN TRUE
    ELSE IF Head(x) # Head(y) THEN Ord(Head(x)) < Ord(Head(y))
    ELSE Less(Tail(x), Tail(y))

\* sorted(...) of a set of strings
RECURSIVE sorted(_)
sorted(S) ==
    IF S = {} THEN <<>>
    ELSE LET m == CHOOSE x \in S : \A y \in S \ {x} : Less(x, y)
         IN <<m>> \o sorted(S \ {m})

\* glob.glob of '<directory>/*.*' (lines 63-67): the names that contain a dot,
\* without the names that begin with a dot, in the order of the listing
glob_match(f) == f # <<>> /\ f[1] # "." /\ \E k \in 1..Len(f) : f[k] = "."
glob(listing) == SelectSeq(listing, glob_match)

\* the position where e begins in f
At(f, k, e) == k + Len(e) - 1 <= Len(f) /\ SubSeq(f, k, k + Len(e) - 1) = e

\* match_with_format, lines 113-124: re.match of '(?P<name>.+)\.(?P<ext>in|out|ans)'
\* at the beginning of the file name; `.+` is greedy, and what follows the
\* extension is not looked at. The result is the group 'name', or None.
match_with_format(f) ==
    LET ks == {k \in 2..Len(f) : At(f, k, In) \/ At(f, k, Out) \/ At(f, k, Ans)}
    IN IF ks = {} THEN None
       ELSE Some(SubSeq(f, 1, (CHOOSE k \in ks : \A j \in ks : j <= k) - 1))

\* pathlib: PurePath.suffix, PurePath.stem and PurePath.with_suffix
last_dot(f) ==
    LET ks == {k \in 2..(Len(f) - 1) : f[k] = "."}
    IN IF ks = {} THEN 0 ELSE CHOOSE k \in ks : \A j \in ks : j <= k
suffix(f) == IF last_dot(f) = 0 THEN <<>> ELSE SubSeq(f, last_dot(f), Len(f))
stem(f) == IF last_dot(f) = 0 THEN f ELSE SubSeq(f, 1, last_dot(f) - 1)
with_suffix(f, ext) == stem(f) \o ext

RECURSIVE reversed(_)
reversed(q) == IF q = <<>> THEN <<>> ELSE reversed(Tail(q)) \o <<Head(q)>>

is_input(f) == suffix(f) = In
is_output(f) == suffix(f) \in {Out, Ans}
is_other(f) == ~is_input(f)

\* glob_with_format, lines 96-108: the input file first, then the other files
\* of the group in the order of the listing
sorted_paths(paths) == reversed(SelectSeq(paths, is_input)) \o SelectSeq(paths, is_other)

\* glob_with_format, lines 70-83: tests[name], the files grouped under a name
grouped(paths, name) ==
    LET in_group(f) == match_with_format(f) = Some(name)
    IN SelectSeq(paths, in_group)

\* glob_with_format, lines 87-108, for the names in sorted order: a name
\* without input file is skipped with a warning
RECURSIVE result(_, _)
result(paths, names) ==
    IF names = <<>> THEN <<>>
    ELSE LET group == grouped(paths, Head(names))
         IN (IF SelectSeq(group, is_input) = <<>> THEN <<>>
             ELSE << [name |-> Head(names), paths |-> sorted_paths(group)] >>)
            \o result(paths, Tail(names))

glob_with_format(listing) ==
    LET paths == glob(listing)
        names == {match_with_format(paths[k])[1] :
                     k \in {j \in 1..Len(paths) : match_with_format(paths[j]) # None}}
    IN result(paths, sorted(names))

\* test.run, line 474
data == <<"d", "a", "t", "a">>
dir_prefix(test_dir) == IF test_dir # data THEN test_dir \o <<"_">> ELSE <<>>

\* only a .ans file is taken as expected output
output_path_ans_only(paths) ==
    LET outs == SelectSeq(paths, LAMBDA f : suffix(f) = Ans)
    IN IF Len(paths) > 1 /\ outs # <<>> THEN Some(Head(outs)) ELSE None

\* test.run, lines 486-491: the first of paths[1:] that ends in .out or .ans
output_path(paths) ==
    LET outs == SelectSeq(Tail(paths), is_output)
    IN IF Len(paths) > 1 /\ outs # <<>> THEN Some(Head(outs)) ELSE None

Path(d, f) == [dir |-> d, file |-> f]

\* test.run, lines 470-499, for one directory
RECURSIVE dir_cases(_, _)
dir_cases(test_dir, dir_tests) ==
    IF dir_tests = <<>> THEN <<>>
    ELSE LET t == Head(dir_tests)
             out == output_path(t.paths)
         IN << [name |-> dir_prefix(test_dir) \o t.name,
                input |-> Path(test_dir, t.paths[1]),
                output |-> IF out = None THEN None ELSE Some(Path(test_dir, out[1]))] >>
            \o dir_cases(test_dir, Tail(dir_tests))

RECURSIVE scanned_cases(_)
scanned_cases(dirs) ==
    IF dirs = <<>> THEN <<>>
    ELSE dir_cases(Head(dirs).name, glob_with_format(Head(dirs).listing))
         \o scanned_cases(Tail(dirs))

\* pathlib.Path.exists, in the directories of the model
exists(dirs, path) ==
    \E k \in 1..Len(dirs) :
       dirs[k].name = path.dir /\ \E j \in 1..Len(dirs[k].listing) : dirs[k].listing[j] = path.file

\* test.run, lines 502-512: the paths given on the command line
RECURSIVE explicit_cases(_, _)
explicit_cases(dirs, test) ==
    IF test = <<>> THEN <<>>
    ELSE LET test_path == Head(test)
             out == Path(test_path.dir, with_suffix(test_path.file, Out))
             ans == Path(test_path.dir, with_suffix(test_path.file, Ans))
         IN (IF exists(dirs, test_path)
             THEN << [name |-> stem(test_path.file),
                      input |-> test_path,
                      output |-> IF exists(dirs, out) THEN Some(out)
                                 ELSE IF exists(dirs, ans) THEN Some(ans)
                                 ELSE None] >>
             ELSE <<>>)
            \o explicit_cases(dirs, Tail(test))

\* format_utils.is_backup_or_hidden_file, lines 134-136; glob_with_format and
\* test.run do not call it, nor drop_backup_or_hidden_files
is_backup_or_hidden_file(f) ==
    f # <<>> /\ (f[Len(f)] = "~" \/ (f[1] = "#" /\ f[Len(f)] = "#") \/ f[1] = ".")

\* the files of the directories of the model
FileNames ==
    { <<"a">> \o In, <<"a">> \o Ans, <<"a">> \o Out, <<"b">> \o In, <<"b">> \o Ans,
      <<"a">> \o In \o <<"~">>, <<"#", "a">> \o In \o <<"#">>, <<".", "a">> \o In }
FewFileNames == { <<"c">> \o In, <<"b", "_", "c">> \o In, <<"c">> \o Ans }
DirNames == { data, <<"a">>, <<"a", "_", "b">> }

\* os.scandir: the files of a directory in any order
Listings(files, n) ==
    {q \in UNION {[1..k -> files] : k \in 0..n} : \A i, j \in 1..Len(q) : q[i] = q[j] => i = j}

Directories ==
    { <<[name |-> d, listing |-> q]>> : d \in {data, <<"a">>}, q \in Listings(FileNames, MaxFiles) }
    \cup
    { <<[name |-> d[1], listing |-> q1], [name |-> d[2], listing |-> q2]>> :
         d \in {e \in DirNames \X DirNames : e[1] # e[2]},
         q1 \in Listings(FewFileNames, 1), q2 \in Listings(FewFileNames, 1) }

\* args.test: no path, or one path into a directory of the model
TestPaths(dirs) ==
    {<<>>} \cup { <<Path(dirs[k].name, f)>> :
                    k \in 1..Len(dirs), f \in {<<"a">> \o In, <<"c">> \o In, <<"a">> \o In \o <<"~">>} }

Discovery(dirs, test) ==
    [pc |-> "input", dirs |-> dirs, test |-> test, dir_tests |-> <<>>, tests |-> <<>>,
     ret |-> None]

InitDiscover ==
    /\ NoRun /\ cmp = NoComparison /\ proc = NoProcess
    /\ \E dirs \in Directories : disc \in {Discovery(dirs, t) : t \in TestPaths(dirs)}

\* test.run, lines 469-516: the directories are scanned, the explicit paths
\* added, and run returns 1 when there is no test or goes on to run the tests
Discover ==
    /\ disc.pc = "input"
    /\ LET found == scanned_cases(disc.dirs) \o explicit_cases(disc.dirs, disc.test)
       IN disc' = [disc EXCEPT
                     !.pc = IF found = <<>> THEN "returned" ELSE "run",
                     !.dir_tests = [k \in 1..Len(disc.dirs) |->
                                       glob_with_format(disc.dirs[k].listing)],
                     !.tests = found,
                     !.ret = IF found = <<>> THEN Some(1) ELSE None]
    /\ UNCHANGED <<proc, cmp, tempdirs, args, tests, pc, idx, queue, futures, worker, lock,
                   spawned, history, ret, exitcode>>

NextDiscover == Discover

SpecDiscover == InitDiscover /\ [][NextDiscover]_vars

\* ================================================================ claims
\* the result dicts recorded so far: in the history or in a resolved future
Recorded ==
    {history[k] : k \in 1..Len(history)} \cup
    {futures[i][1] : i \in {j \in Cases : IsResult(futures[j])}}

Summarized == (pc \in {"summarize", "returned"} \/ (pc = "exit" /\ ret # None)) /\ tests # <<>>

OverMemory(memory) == memory # None /\ args.mle # None /\ memory[1] > args.mle[1]

\* C1: a case whose candidate was still running at the time limit
\* (returncode None) is recorded as TLE and as nothing else.
C1_TimedOutIsTLE ==
    \A r \in Recorded : r.exitcode = None => r.status = "TLE"

\* the fixed priority order of the verdict rules, first match wins
first_match(returncode, memory, match) ==
    IF returncode = None THEN "TLE"
    ELSE IF OverMemory(memory) THEN "MLE"
    ELSE IF returncode[1] # 0 THEN "RE"
    ELSE IF ~match THEN "WA"
    ELSE "AC"

\* C2: whenever display_result is called (a frame at line 351 with a
\* comparison outcome), the verdict it computes is the first matching rule
\* of TLE, MLE, RE, WA, AC.
C2_FirstMatchWins ==
    \A w \in Threads :
        LET f == worker[w]
        IN (f.pc = "display" /\ f.match_result # None) =>
              display_result(f.returncode, f.memory, args.mle, f.match_result)
                  = first_match(f.returncode, f.memory, f.match_result[1])

\* C3: a case with an expected-output file that completed within the limits
\* with a non-zero exit code is recorded as RE, whatever its output is.
C3_NonZeroExitIsRE ==
    \A r \in Recorded :
        (r.exitcode # None /\ r.exitcode[1] # 0 /\ ~OverMemory(r.memory)
            /\ tests[r.name].output # None)
            => r.status = "RE"

\* C4: a case without an expected-output file, run without a special judge,
\* is never recorded as AC.
C4_NoExpectedNeverAC ==
    \A r \in Recorded :
        (tests[r.name].output = None /\ ~args.judge) => r.status # "AC"

\* C5: the exit code of the harness is 0 exactly when at least one case was
\* found and every case is AC, and 1 otherwise.
C5_ExitCode ==
    exitcode # None =>
        exitcode[1] = (IF tests # <<>> /\ Len(history) = Len(tests)
                          /\ \A k \in 1..Len(history) : history[k].status = "AC"
                       THEN 0 ELSE 1)

\* C6: once test.run has returned from a run with cases, the history holds
\* every case, and the value returned is 0 (success) exactly when every entry
\* of the history is AC.
C6_AggregateSuccess ==
    (ret # None /\ tests # <<>>) =>
        /\ Len(history) = Len(tests)
        /\ ret[1] \in {0, 1}
        /\ ret[1] = 0 <=> \A k \in 1..Len(history) : history[k].status = "AC"

C6_Witness ==
    /\ ret = Some(1)
    /\ \E k \in 1..Len(history) : history[k].status = "AC"
    /\ \E k \in 1..Len(history) : history[k].status \in {"WA", "RE", "TLE", "MLE"}

\* C7: when the run reaches its summary the history holds one result for
\* every case of the test list, whatever the verdicts of the other cases are.
C7_EveryCaseHasAResult ==
    Summarized =>
        /\ Len(history) = Len(tests)
        /\ \A i \in Cases : \E k \in 1..Len(history) : history[k].name = tests[i].name

C7_Witness ==
    /\ Summarized
    /\ Len(history) >= 2
    /\ history[1].status \in {"WA", "RE", "TLE", "MLE"}
    /\ spawned[history[2].name] = 1

\* the status test_single_case gives case i for the run outcome recorded in r,
\* for each exit code the judge can have returned
StatusFor(i, r) ==
    IF ~tests[i].readable
    THEN {case_status(r.exitcode, r.memory, args.mle, read_error_result, tests[i].output,
                      args.judge)}
    ELSE IF args.judge
    THEN {case_status(r.exitcode, r.memory, args.mle, Some(m), tests[i].output, TRUE) :
              m \in BOOLEAN}
    ELSE {case_status(r.exitcode, r.memory, args.mle,
                      run_checking_output(args.compare_mode, args.error, encode(r.output), tests[i].output),
                      tests[i].output, FALSE)}

\* C8: in sequential mode and for every pool size and interleaving, the
\* history at the summary has at position i the result of case i, its status
\* is the one test_single_case computes from that case's own run outcome and
\* expected file, and the aggregate is failure exactly when some status is not AC.
C8_ParallelAsSequential ==
    Summarized =>
        /\ Len(history) = Len(tests)
        /\ \A i \in Cases :
              /\ history[i].name = tests[i].name
              /\ history[i].status \in StatusFor(i, history[i])
        /\ ret # None => (ret[1] = 1 <=> \E i \in Cases : history[i].status # "AC")

C8_Witness ==
    /\ Summarized
    /\ args.jobs = Some(2)
    /\ Len(history) = 2
    /\ history[1].status # history[2].status
    /\ ret = Some(1)

\* C9 as claimed: the thread that holds the lock is not running the special
\* judge, not comparing and not deciding the verdict.
C9_LockOnlyForLogs ==
    \A w \in Threads :
        lock = Some(w) => worker[w].pc \notin {"locked", "judging", "display"}

\* C9 as amended: a pool thread runs the candidate without the lock, and
\* compares, runs the special judge and decides the verdict only while it
\* holds the lock, so at most one pool thread is in these steps.
C9_CheckUnderLock ==
    /\ \A w \in 1..MaxJobs :
          worker[w].pc \in {"locked", "judging", "display"} <=> lock = Some(w)
    /\ lock # None => lock[1] \in 1..MaxJobs

C9_Witness ==
    \E w1, w2 \in 1..MaxJobs :
        /\ w1 # w2
        /\ lock = Some(w1) /\ worker[w1].pc = "judging"
        /\ worker[w2].pc = "running"

\* the threads that are inside test_single_case for case i
Evaluating(i) == {w \in Threads : worker[w].pc # "idle" /\ worker[w].case = i}

\* C10: the candidate of a case is started at most once, a case is never in
\* two threads at a time, and at the summary each case was started exactly
\* once and has exactly one entry in the history.
C10_EvaluatedOnce ==
    /\ \A i \in Cases :
          /\ spawned[i] <= 1
          /\ Cardinality(Evaluating(i)) <= 1
          /\ Cardinality({k \in 1..Len(history) : history[k].name = tests[i].name}) <= 1
    /\ Summarized =>
          \A i \in Cases :
              /\ spawned[i] = 1
              /\ Cardinality({k \in 1..Len(history) : history[k].name = tests[i].name}) = 1

C10_Witness ==
    /\ Summarized
    /\ \E k \in 1..Len(history) :
          /\ history[k].status \in {"WA", "RE", "TLE", "MLE"}
          /\ history[k].exitcode = None
          /\ spawned[history[k].name] = 1

\* ------------------------------------------------- claims on the comparators
Compared == cmp.pc = "done"

\* C11: under exact-match, without a tolerance and without a judge, a case whose
\* candidate exits with code 0 within the limits and whose actual output equals
\* the expected output byte for byte (both may be empty) gets the verdict AC.
C11_IdenticalIsAC ==
    (Compared /\ cmp.compare_mode = "exact-match" /\ cmp.error = None
       /\ cmp.stdout = cmp.expected)
    => cmp.status = "AC"

\* the same for outputs that are not blank: a byte that is not UTF-8 is enough
C11_IdenticalNotBlankIsAC ==
    (Compared /\ cmp.compare_mode = "exact-match" /\ cmp.error = None
       /\ cmp.stdout = cmp.expected /\ strip(cmp.expected) # <<>>)
    => cmp.status = "AC"

RECURSIVE lf_to_crlf(_, _)
lf_to_crlf(b, prev) ==
    IF b = <<>> THEN <<>>
    ELSE IF b[1] = "\n" /\ prev # "\r" THEN <<"\r", "\n">> \o lf_to_crlf(Tail(b), b[1])
    ELSE <<b[1]>> \o lf_to_crlf(Tail(b), b[1])

\* an output with its line endings as they are, all "\n", or all "\r\n"
LineEndingStyles(b) == {b, replace_crlf(b), lf_to_crlf(b, "")}

\* the outcome of the comparison of cmp for another actual and expected output
Outcome(stdout, expected) ==
    run_checking_output(cmp.compare_mode, cmp.error, encode(decode_replace(stdout)),
                        Some(expected))

\* a "\r" stands directly before a "\r\n"
StrayCR(b) == \E k \in 1..(Len(b) - 2) : SubSeq(b, k, k + 2) = <<"\r", "\r", "\n">>

\* C13 as stated: under crlf-insensitive-exact-match, replacing the line endings
\* "\r\n" by "\n" or "\n" by "\r\n" in the actual output, in the expected output
\* or in both never changes the result of the comparison.
C13_LineEndingStyle ==
    (Compared /\ cmp.compare_mode = "crlf-insensitive-exact-match" /\ cmp.error = None)
    => \A o \in LineEndingStyles(cmp.stdout), e \in LineEndingStyles(cmp.expected) :
          Outcome(o, e) = cmp.match_result

\* C13: under crlf-insensitive-exact-match, replacing the line endings "\r\n" by
\* "\n" or "\n" by "\r\n" in an output in which no "\r" stands directly before a
\* "\r\n" never changes the result of the comparison.
C13_LineEndingStyleNoStrayCR ==
    (Compared /\ cmp.compare_mode = "crlf-insensitive-exact-match" /\ cmp.error = None)
    => \A o \in (IF StrayCR(cmp.stdout) THEN {cmp.stdout} ELSE LineEndingStyles(cmp.stdout)),
          e \in (IF StrayCR(cmp.expected) THEN {cmp.expected}
                 ELSE LineEndingStyles(cmp.expected)) :
          Outcome(o, e) = cmp.match_result

\* the outputs differ in their line endings only, and match
C13_Witness ==
    /\ Compared /\ cmp.compare_mode = "crlf-insensitive-exact-match"
    /\ cmp.stdout = <<"a", "\r", "\n", "a", "\r">>
    /\ cmp.expected = <<"a", "\n", "a", "\n">>
    /\ cmp.match_result = Some(TRUE)

\* the lines of an output: a final newline ends the last line
lines_of(b) ==
    IF b = <<>> THEN <<>>
    ELSE split_nl(IF b[Len(b)] = "\n" THEN SubSeq(b, 1, Len(b) - 1) ELSE b, <<>>)

\* a line with every run of spaces shortened to one space
RECURSIVE squeeze(_)
squeeze(line) ==
    IF Len(line) < 2 THEN line
    ELSE IF line[1] = " " /\ line[2] = " " THEN squeeze(Tail(line))
    ELSE <<line[1]>> \o squeeze(Tail(line))

\* the same lines, up to the lengths of the runs of spaces inside them
SameLinesUpToSpaceRuns(a, e) ==
    /\ Len(lines_of(a)) = Len(lines_of(e))
    /\ \A k \in 1..Len(lines_of(a)) : squeeze(lines_of(a)[k]) = squeeze(lines_of(e)[k])

C14_LineCount ==
    (Compared /\ cmp.compare_mode = "ignore-spaces" /\ cmp.error = None
       /\ Len(lines_of(cmp.stdout)) # Len(lines_of(cmp.expected)))
    => cmp.match_result = Some(FALSE)

tokens_of(b) == split_ws(b, <<>>)

NoNumericToken(b) == \A k \in 1..Len(tokens_of(b)) : parse_float(tokens_of(b)[k]) = None

ExactModes == {"exact-match", "crlf-insensitive-exact-match"}

\* C16 as stated: in each compare mode two outputs without a numeric token match
\* with a tolerance exactly when they match in the same mode without one.
C16_ToleranceKeepsStructure ==
    (Compared /\ cmp.error # None
       /\ NoNumericToken(cmp.stdout) /\ NoNumericToken(cmp.expected))
    => cmp.match_result =
         run_checking_output(cmp.compare_mode, None, encode(cmp.answer), Some(cmp.expected))

\* C16: two outputs without a numeric token match with a tolerance exactly when
\* they match without one in the same mode, for ignore-spaces and
\* ignore-spaces-and-newlines, and in the mode ignore-spaces, for exact-match
\* and crlf-insensitive-exact-match.
C16_ToleranceStructure ==
    (Compared /\ cmp.error # None
       /\ NoNumericToken(cmp.stdout) /\ NoNumericToken(cmp.expected))
    => cmp.match_result =
         run_checking_output(IF cmp.compare_mode \in ExactModes THEN "ignore-spaces"
                             ELSE cmp.compare_mode,
                             None, encode(cmp.answer), Some(cmp.expected))

\* exact-match with a tolerance accepts a run of two spaces against one
C16_Witness ==
    /\ Compared /\ cmp.compare_mode = "exact-match" /\ cmp.error # None
    /\ cmp.stdout = <<"a", " ", " ", "a">> /\ cmp.expected = <<"a", " ", "a">>
    /\ cmp.match_result = Some(TRUE)

\* C17: with a tolerance t, used as relative and as absolute tolerance, the
\* actual token 1.00001 is accepted against the expected token 1.0 for every
\* t >= 1e-5 and rejected for every t < 1e-6; when a token does not parse as a
\* number the two tokens are compared by exact string equality.
C17_Tolerance ==
    (Compared /\ cmp.error # None /\ Len(tokens_of(cmp.stdout)) = 1
       /\ Len(tokens_of(cmp.expected)) = 1)
    => LET t == cmp.error[1]
           a == tokens_of(cmp.stdout)[1]
           e == tokens_of(cmp.expected)[1]
       IN /\ (a = <<"1", ".", "0", "0", "0", "0", "1">> /\ e = <<"1", ".", "0">>)
             => /\ t * 100000 >= TolUnit => cmp.match_result = Some(TRUE)
                /\ t * 1000000 < TolUnit => cmp.match_result = Some(FALSE)
          /\ (parse_float(a) = None \/ parse_float(e) = None)
             => cmp.match_result = Some(a = e)

\* 1.00001 against 1.0 with the tolerance 1e-5 is accepted
C17_Witness ==
    /\ Compared /\ cmp.error # None /\ cmp.error[1] * 100000 = TolUnit
    /\ cmp.stdout = <<"1", ".", "0", "0", "0", "0", "1", "\n">>
    /\ cmp.expected = <<"1", ".", "0", "\n">>
    /\ cmp.match_result = Some(TRUE)
    /\ cmp.status = "AC"

\* ------------------------------------------------ claims on the special judge
Judging(w) == worker[w].pc = "judging"

C19_ThreeArguments ==
    \A w \in Threads :
       Judging(w) =>
          LET f == worker[w]
              expected == expected_output_path(f.case)
          IN SubSeq(f.argv, Len(shlex_split(judge_command)) + 1, Len(f.argv))
               = << input_path(f.case), actual_output_path(f.tempdir[1]),
                    IF expected # None THEN expected[1] ELSE <<>> >>

\* C20: every judge invocation has its own temporary directory: while the judge
\* runs the directory exists and its file holds the output of that case handed
\* to the judge, no two invocations in flight have the same directory, and a
\* directory exists only while its invocation is in flight.
C20_OwnTempDir ==
    /\ \A w \in Threads :
          Judging(w) =>
             /\ worker[w].tempdir # None
             /\ tempdirs[worker[w].tempdir[1]]
                  = Some(actual_output(encode(worker[w].answer), tests[worker[w].case].output))
    /\ \A w1, w2 \in Threads :
          (Judging(w1) /\ Judging(w2) /\ w1 # w2) => worker[w1].tempdir # worker[w2].tempdir
    /\ \A d \in TempNames :
          tempdirs[d] # None => \E w \in Threads : Judging(w) /\ worker[w].tempdir = Some(d)

\* a judge runs on the output of one case while another worker waits with
\* the output of its own case
C20_Witness ==
    \E w1, w2 \in Threads :
       /\ Judging(w1) /\ worker[w1].tempdir # None
       /\ tempdirs[worker[w1].tempdir[1]] = Some(<<"b">>)
       /\ worker[w2].pc = "waitlock" /\ worker[w2].answer = <<"a", "\n">>

\* C21: when the judge process cannot be started -- not found, not permitted,
\* or any other failure of the spawn -- no case gets a verdict from it (no
\* result of the run is WA or AC), and a run that has cases ends with exit
\* code 1 without test.run having returned.
C21_JudgeSpawnFailureIsFatal ==
    args.judge /\ args.judge_spawn # "ok" /\ tests # <<>> =>
       /\ \A r \in Recorded : r.status \notin {"WA", "AC"}
       /\ \A w \in Threads : worker[w].pc # "display"
       /\ ret = None
       /\ exitcode \in {None, Some(1)}

\* C22: when the memory probe is not available the run does not abort: it
\* ends only after test.run returned with a result for every case, no case is
\* left without result by an exception, and every result has no memory and is
\* not MLE.
C22_RunsWithoutProbe ==
    ~args.gnu_time_found =>
       /\ pc = "exit" => ret # None /\ Len(history) = Len(tests)
       /\ pc # "shutdown"
       /\ \A i \in Cases : ~IsRaised(futures[i])
       /\ \A r \in Recorded : r.memory = None /\ r.status # "MLE"

\* a run that was ended by an exception: no summary, no return value of test.run
Aborted == pc = "shutdown" \/ (pc = "exit" /\ ret = None)

\* C24: the run aborts with a non-zero exit code and without a verdict for the
\* case when the candidate command cannot be started, in sequential and in
\* parallel mode; and when the candidate command can be started (and the judge,
\* if any) the run never aborts, whatever the candidate does.
C24_AbortOnlyOnMissingCommand ==
    /\ ~args.command_found /\ tests # <<>> =>
          /\ Recorded = {}
          /\ \A w \in Threads : worker[w].pc \notin {"waitlock", "locked", "judging", "display"}
          /\ ret = None
          /\ exitcode \in {None, Some(1)}
    /\ args.command_found /\ args.judge_spawn = "ok" =>
          /\ ~Aborted
          /\ \A i \in Cases : ~IsRaised(futures[i])

\* C23: when the time limit passed while the candidate was running,
\* exec_command returns with proc.returncode None, and at its return no process
\* it started, child or descendant, is left running (a process that SIGTERM is
\* ending counts as terminated).
C23_TimeoutTerminatesAll ==
    proc.pc = "returned" /\ proc.expired =>
       /\ proc.returncode = None
       /\ \A p \in Processes : proc.state[p] # "running"

\* ------------------------------------------------------ claims of discovery
Discovered == disc.pc \in {"run", "returned"}
OneDirectory == Discovered /\ Len(disc.dirs) = 1 /\ disc.test = <<>>
Files(dir) == {dir.listing[k] : k \in 1..Len(dir.listing)}
EndsWith(f, e) == Len(f) > Len(e) /\ SubSeq(f, Len(f) - Len(e) + 1, Len(f)) = e
NameOf(f, e) == SubSeq(f, 1, Len(f) - Len(e))
\* the names that have an expected-output file and no input file
Dangling(dir) ==
    {NameOf(f, e[1]) : <<f, e>> \in
        {x \in Files(dir) \X {<<Ans>>, <<Out>>} :
            /\ EndsWith(x[1], x[2][1])
            /\ ~is_backup_or_hidden_file(x[1])
            /\ NameOf(x[1], x[2][1]) \o In \notin Files(dir)}}

\* C25: when a directory has a name with a .ans or .out file and no .in file,
\* the run does not go on to run the other cases: it ends with a non-zero
\* return value.
C25_DanglingIsError ==
    (Discovered /\ \E k \in 1..Len(disc.dirs) : Dangling(disc.dirs[k]) # {}) =>
        disc.pc = "returned" /\ disc.ret # None /\ disc.ret # Some(0)

\* C26: when the .ans file and the .out file of a case both exist, the
\* expected output of the case is the .ans file, for the cases found in a
\* directory and for the cases given as paths, in every order of the listing.
C26_AnsPreferred ==
    Discovered =>
       \A k \in 1..Len(disc.tests) :
          LET t == disc.tests[k]
              ans == Path(t.input.dir, with_suffix(t.input.file, Ans))
              out == Path(t.input.dir, with_suffix(t.input.file, Out))
          IN exists(disc.dirs, ans) /\ exists(disc.dirs, out) => t.output = Some(ans)

\* the input files of a directory: the files <name>.in that are neither backup
\* nor hidden files
Inputs(dir) == {f \in Files(dir) : EndsWith(f, In) /\ ~is_backup_or_hidden_file(f)}

\* C27: for one directory and the default format, the test list has one case
\* for each name that has a .in file, named after it and with that file as
\* input, and no other case; the expected output of a case is set exactly when
\* the directory has a .ans or a .out file of the same name, and is such a file.
C27_OneCasePerInput ==
    OneDirectory =>
       LET dir == disc.dirs[1]
           expected(f) == {NameOf(f, In) \o Ans, NameOf(f, In) \o Out} \cap Files(dir)
       IN /\ Len(disc.tests) = Cardinality(Inputs(dir))
          /\ \A f \in Inputs(dir) :
                \E k \in 1..Len(disc.tests) :
                   /\ disc.tests[k].input = Path(dir.name, f)
                   /\ disc.tests[k].name = dir_prefix(dir.name) \o NameOf(f, In)
          /\ \A k \in 1..Len(disc.tests) :
                LET t == disc.tests[k]
                IN /\ t.input.file \in Inputs(dir)
                   /\ (t.output # None) = (expected(t.input.file) # {})
                   /\ t.output # None =>
                         t.output[1].dir = dir.name /\ t.output[1].file \in expected(t.input.file)

\* a.in, a.ans and b.in in some order: two cases, the first with expected output
C27_Witness ==
    /\ OneDirectory
    /\ Files(disc.dirs[1]) = { <<"a">> \o In, <<"a">> \o Ans, <<"b">> \o In }
    /\ Len(disc.tests) = 2
    /\ disc.tests[1].output # None /\ disc.tests[2].output = None

\* the orders in which the files of a listing can be listed
Orders(listing) ==
    {q \in Listings({listing[k] : k \in 1..Len(listing)}, Len(listing)) : Len(q) = Len(listing)}

\* C28: the list of cases found in one directory is strictly increasing by case
\* name, and it is the same list for every order of the listing.
C28_SortedAndOrderIndependent ==
    OneDirectory =>
       /\ \A k \in 1..(Len(disc.tests) - 1) : Less(disc.tests[k].name, disc.tests[k + 1].name)
       /\ \A q \in Orders(disc.dirs[1].listing) :
             dir_cases(disc.dirs[1].name, glob_with_format(q)) = disc.tests

\* C29: no backup or hidden file is grouped under a case name, and none is the
\* input or the expected output of a case.
C29_BackupFilesDropped ==
    Discovered =>
       /\ \A d \in 1..Len(disc.dir_tests) : \A k \in 1..Len(disc.dir_tests[d]) :
             \A j \in 1..Len(disc.dir_tests[d][k].paths) :
                ~is_backup_or_hidden_file(disc.dir_tests[d][k].paths[j])
       /\ \A k \in 1..Len(disc.tests) :
             /\ ~is_backup_or_hidden_file(disc.tests[k].input.file)
             /\ disc.tests[k].output # None =>
                   ~is_backup_or_hidden_file(disc.tests[k].output[1].file)

\* C30: no two entries of the test list have the same name.
C30_NamesDistinct ==
    Discovered =>
       \A i, j \in 1..Len(disc.tests) : disc.tests[i].name = disc.tests[j].name => i = j

\* C32: when a comparison in an exact mode fails and the comparison of the
\* hint is made, the outcome stays false and the status WA, whether the
\* comparison of the hint matches or not.
C32_HintKeepsResult ==
    (Compared /\ is_exact(cmp.compare_mode, cmp.error) /\ cmp.hint # None) =>
        cmp.match_result = Some(FALSE) /\ cmp.status = "WA"

\* "a a" against "a", newline, "a": the hint matches and the case is WA
C32_Witness ==
    /\ Compared /\ is_exact(cmp.compare_mode, cmp.error)
    /\ cmp.stdout = <<"a", " ", "a">> /\ cmp.expected = <<"a", "\n", "a">>
    /\ cmp.hint = Some(TRUE)
    /\ cmp.status = "WA"

Blank(b) == \A k \in 1..Len(b) : IsSpace(b[k])

\* C39: without a judge command, a case whose expected file is empty or holds
\* only whitespace is a mismatch in every compare mode, with and without a
\* tolerance, for every output of the candidate, the empty one included: the
\* comparison is false and the candidate that exits with code 0 gets WA.
C39_BlankExpectedIsWA ==
    (Compared /\ Blank(cmp.expected)) =>
        cmp.match_result = Some(FALSE) /\ cmp.status = "WA"

\* an empty output against an expected file of one newline
C39_Witness ==
    /\ Compared
    /\ cmp.stdout = <<>> /\ cmp.expected = <<"\n">>
    /\ cmp.compare_mode = "ignore-spaces-and-newlines"
    /\ cmp.status = "WA"

\* C33: without --jobs the cases are evaluated in the order of the test list:
\* only the main thread runs cases, the candidate of a case has been started
\* only if the results of all the cases before it are in the history, and the
\* k-th entry of the history is the result of the k-th test.
C33_SequentialOrder ==
    args.jobs = None =>
       /\ \A w \in Threads \ {MainThread} : worker[w].pc = "idle"
       /\ \A i \in Cases : spawned[i] > 0 => Len(history) >= i - 1
       /\ \A k \in 1..Len(history) : history[k].name = tests[k].name

\* the candidate of the second case runs, the result of the first is recorded
C33_Witness ==
    /\ args.jobs = None /\ Len(tests) = 2
    /\ worker[MainThread].pc = "running" /\ worker[MainThread].case = 2
    /\ Len(history) = 1 /\ history[1].name = tests[1].name

\* C34: with --jobs, whatever the order in which the pool threads finish, the
\* k-th entry of the history is the result that the k-th submitted case
\* produced, and every result carries the name of its own case.
C34_CollectedInSubmissionOrder ==
    args.jobs # None =>
       /\ \A i \in Cases : IsResult(futures[i]) => futures[i][1].name = tests[i].name
       /\ \A k \in 1..Len(history) :
             /\ IsResult(futures[k])
             /\ history[k] = futures[k][1]
             /\ history[k].name = tests[k].name

\* the second case finished first, and the first result was collected first
C34_Witness ==
    /\ args.jobs = Some(2) /\ Len(tests) = 2
    /\ pc = "collect" /\ idx = 2
    /\ Len(history) = 1 /\ history[1].name = tests[1].name
    /\ IsResult(futures[2])
    /\ futures[2][1].status # history[1].status

\* C36: a case is recorded as AC only if its candidate completed within the
\* time limit with exit code 0 and not above the memory limit, with or without
\* expected file.
C36_ACOnlyIfCompleted ==
    \A r \in Recorded :
        r.status = "AC" => r.exitcode = Some(0) /\ ~OverMemory(r.memory)

\* C38: the content of the temporary file given to the judge is the standard
\* output captured from the candidate, byte for byte, for cases with and
\* without expected file.
C38_JudgeGetsStdout ==
    \A w \in Threads :
       Judging(w) => tempdirs[worker[w].tempdir[1]] = Some(worker[w].stdout)

\* the step in which pool thread w logs 'Test input: ...' for the case it takes
LogsTestInput(w) == worker[w].pc = "idle" /\ worker'[w].pc = "running"

\* C35: with --jobs no log line of a case is written between the log lines of
\* another case: a pool thread writes a log line of its case only when no
\* other thread holds the lock, that is, is between the header and the verdict
\* lines of its own case.
C35_LogsNotMixed ==
    [][\A w \in Threads \ {MainThread} : LogsTestInput(w) => lock \in {None, Some(w)}]_vars

\* C37: every run ends, with a result for every case in the history.
C37_RunFinishes == <>(pc = "exit" /\ Len(history) = Len(tests))

\* C31: a case that has an expected-output file has a definite comparison
\* outcome, true or false and never None, when its verdict is decided: with and
\* without a judge command, and when the expected file cannot be read.
C31_DefiniteOutcome ==
    \A w \in Threads :
       worker[w].pc = "display" /\ tests[worker[w].case].output # None =>
          worker[w].match_result \in {Some(TRUE), Some(FALSE)}

\* a judge command is given and the expected file of the case cannot be read
C31_Witness ==
    \E w \in Threads :
       /\ worker[w].pc = "display"
       /\ args.judge
       /\ tests[worker[w].case].output # None /\ ~tests[worker[w].case].readable
       /\ worker[w].match_result = Some(FALSE)
====
